---------------------------- MODULE Spec2Model ----------------------------
(***************************************************************************)
(* A model of the UniFi Python RADIUS server (python-radius/                *)
(* radius_server.py): DatabaseManager (connection pool, normalize_mac,      *)
(* get_vlan_for_mac, log_radius_request) and UniFiRadiusServer              *)
(* (HandleAuthPacket, create_accept_packet, create_reject_packet).          *)
(*                                                                          *)
(* Text is modelled as a sequence of one-character strings, so that         *)
(* normalize_mac can be computed character by character as the code does.   *)
(***************************************************************************)
EXTENDS Integers, Sequences, FiniteSets, TLC

(***************************************************************************)
(* Python's None for a text value.  A real text is a sequence of            *)
(* one-character strings, so this one-element sequence is no real text.     *)
(***************************************************************************)
None == <<"<None>">>

(***************************************************************************)
(* Characters.                                                              *)
(***************************************************************************)
Digits == {"0", "1", "2", "3", "4", "5", "6", "7", "8", "9"}

LowerSeq == <<"a", "b", "c", "d", "e", "f", "g", "h", "i", "j", "k", "l", "m",
              "n", "o", "p", "q", "r", "s", "t", "u", "v", "w", "x", "y", "z">>

UpperSeq == <<"A", "B", "C", "D", "E", "F", "G", "H", "I", "J", "K", "L", "M",
              "N", "O", "P", "Q", "R", "S", "T", "U", "V", "W", "X", "Y", "Z">>

AsciiLetters == {LowerSeq[i] : i \in DOMAIN LowerSeq} \cup {UpperSeq[i] : i \in DOMAIN UpperSeq}

\* One character: ARABIC-INDIC DIGIT ONE (U+0661), a decimal digit that is not ASCII.
UnicodeDigits == {"U+0661"}

\* str.isalnum() of one character (line 174).
IsAlnum(c) == c \in Digits \cup AsciiLetters \cup UnicodeDigits

LowerIdentity(c) == c

\* str.lower() of one character (line 174).
Lower(c) ==
    IF \E i \in DOMAIN UpperSeq : UpperSeq[i] = c
    THEN LowerSeq[CHOOSE i \in DOMAIN UpperSeq : UpperSeq[i] = c]
    ELSE c

\* ''.join(c.lower() for c in mac if c.isalnum())   (line 174)
RECURSIVE CleanMac(_)
CleanMac(mac) ==
    IF mac = <<>> THEN <<>>
    ELSE IF IsAlnum(Head(mac)) THEN <<Lower(Head(mac))>> \o CleanMac(Tail(mac))
    ELSE CleanMac(Tail(mac))

\* The digits int(s, 16) accepts: 0-9, a-f, A-F and the Unicode decimal digits.
Base16Digits == Digits \cup {"a", "b", "c", "d", "e", "f", "A", "B", "C", "D", "E", "F"}
                       \cup UnicodeDigits

\* Whether int(s, 16) returns instead of raising ValueError (line 182), for a
\* text without whitespace, sign or underscore (CleanMac leaves none): an
\* optional 0x / 0X prefix, then one or more base-16 digits.
IntBase16Ok(s) ==
    LET prefixed == Len(s) >= 2 /\ s[1] = "0" /\ s[2] \in {"x", "X"}
        body == IF prefixed THEN SubSeq(s, 3, Len(s)) ELSE s
    IN  /\ Len(body) > 0
        /\ \A i \in 1..Len(body) : body[i] \in Base16Digits

\* The length normalize_mac requires of the cleaned text (line 177).
MacLen == 12

JoinPairsDash(clean) ==
    <<clean[1], clean[2], "-", clean[3], clean[4], "-", clean[5], clean[6], "-",
      clean[7], clean[8], "-", clean[9], clean[10], "-", clean[11], clean[12]>>

\* ':'.join(clean_mac[i:i+2] for i in range(0, 12, 2))   (line 187)
JoinPairs(clean) ==
    <<clean[1], clean[2], ":", clean[3], clean[4], ":", clean[5], clean[6], ":",
      clean[7], clean[8], ":", clean[9], clean[10], ":", clean[11], clean[12]>>

\* DatabaseManager.normalize_mac (lines 170-187).
NormalizeMac(mac) ==
    IF mac = None \/ mac = <<>> THEN None
    ELSE LET clean_mac == CleanMac(mac)
         IN  IF Len(clean_mac) # MacLen THEN None
             ELSE IF ~IntBase16Ok(clean_mac) THEN None
             ELSE JoinPairs(clean_mac)

(***************************************************************************)
(* Inputs of normalize_mac: 12 hexadecimal digits rendered in a letter case *)
(* and with a separator in each of the five gaps; short texts; and texts    *)
(* one edit away from a well-formed MAC.                                    *)
(***************************************************************************)
SampleDigits ==
    { <<"a", "a", "b", "b", "c", "c", "d", "d", "e", "e", "f", "f">>,
      <<"0", "1", "2", "3", "4", "5", "6", "7", "8", "9", "a", "b">>,
      <<"f", "f", "0", "0", "f", "f", "0", "0", "9", "9", "c", "d">> }

CaseStyles == {"lower", "upper", "mixed"}

Separators == { <<":">>, <<"-">>, <<" ">>, <<>> }

Upper(c) ==
    IF \E i \in DOMAIN LowerSeq : LowerSeq[i] = c
    THEN UpperSeq[CHOOSE i \in DOMAIN LowerSeq : LowerSeq[i] = c]
    ELSE c

\* Digit i of d written in the letter case of the style.
Cased(d, i, style) ==
    IF style = "upper" \/ (style = "mixed" /\ i % 2 = 1) THEN Upper(d[i]) ELSE d[i]

RECURSIVE RenderFrom(_, _, _, _)
RenderFrom(d, style, seps, k) ==
    IF k > 6 THEN <<>>
    ELSE <<Cased(d, 2 * k - 1, style), Cased(d, 2 * k, style)>>
         \o (IF k < 6 THEN seps[k] ELSE <<>>)
         \o RenderFrom(d, style, seps, k + 1)

\* The 12 digits d as six pairs, in a letter case, with seps[k] after pair k.
Render(d, style, seps) == RenderFrom(d, style, seps, 1)

WellFormedInputs ==
    { Render(d, style, seps) : d \in SampleDigits, style \in CaseStyles,
                               seps \in [1..5 -> Separators] }

MaxShortLen == 2

ShortAlphabet == {"a", "G", ":", "0", "x"}

ShortInputs == UNION { [1..n -> ShortAlphabet] : n \in 0..MaxShortLen }

EditChars == {"g", "Z", "x", "X", "-", "0", "U+0661"}

EditBases ==
    { <<"0", "1", ":", "2", "3", ":", "4", "5", ":", "6", "7", ":", "8", "9", ":", "a", "b">>,
      <<"0", "1", "2", "3", "4", "5", "6", "7", "8", "9", "a", "b">>,
      <<"A", "A", "-", "B", "B", "-", "C", "C", "-", "D", "D", "-", "E", "E", "-", "F", "F">> }

ReplaceAt(s, i, c) == [s EXCEPT ![i] = c]
DeleteAt(s, i) == SubSeq(s, 1, i - 1) \o SubSeq(s, i + 1, Len(s))
InsertAt(s, i, c) == SubSeq(s, 1, i - 1) \o <<c>> \o SubSeq(s, i, Len(s))

EditedInputs ==
    UNION { { ReplaceAt(s, i, c) : i \in 1..Len(s), c \in EditChars }
            \cup { DeleteAt(s, i) : i \in 1..Len(s) }
            \cup { InsertAt(s, i, c) : i \in 1..(Len(s) + 1), c \in EditChars }
            : s \in EditBases }

\* The malformed inputs of the repository's demonstration (demo_radius.py, lines 66-75).
DemoInputs ==
    { <<"i", "n", "v", "a", "l", "i", "d", "-", "m", "a", "c">>,
      <<"A", "A", ":", "B", "B", ":", "C", "C", ":", "D", "D", ":", "E", "E">>,
      <<"A", "A", ":", "B", "B", ":", "C", "C", ":", "D", "D", ":", "E", "E", ":", "F", "F",
        ":", "G", "G">> }

NormInputs == WellFormedInputs \cup ShortInputs \cup EditedInputs \cup DemoInputs \cup {None}


(***************************************************************************)
(* Integers stored as text, and int() / str() on them.                      *)
(***************************************************************************)
DigitSeq == <<"0", "1", "2", "3", "4", "5", "6", "7", "8", "9">>

DigitValue(c) == (CHOOSE i \in DOMAIN DigitSeq : DigitSeq[i] = c) - 1

\* Whether int(text) returns instead of raising ValueError (lines 250, 265, 279),
\* for a text without whitespace or underscore: an optional sign, then one or
\* more decimal digits.
IntOk(text) ==
    LET signed == Len(text) >= 1 /\ text[1] \in {"+", "-"}
        body == IF signed THEN Tail(text) ELSE text
    IN  /\ Len(body) > 0
        /\ \A i \in 1..Len(body) : body[i] \in Digits

RECURSIVE DecimalValue(_)
DecimalValue(body) ==
    IF body = <<>> THEN 0
    ELSE 10 * DecimalValue(SubSeq(body, 1, Len(body) - 1)) + DigitValue(body[Len(body)])

\* int(text), where IntOk(text).
ParseInt(text) ==
    IF text[1] = "-" THEN 0 - DecimalValue(Tail(text))
    ELSE IF text[1] = "+" THEN DecimalValue(Tail(text))
    ELSE DecimalValue(text)

RECURSIVE NatToStr(_)
NatToStr(n) ==
    IF n < 10 THEN <<DigitSeq[n + 1]>>
    ELSE NatToStr(n \div 10) \o <<DigitSeq[(n % 10) + 1]>>

\* str(vlan_id) of an int (line 490).
IntToStr(n) == IF n < 0 THEN <<"-">> \o NatToStr(0 - n) ELSE NatToStr(n)

(***************************************************************************)
(* The texts that appear in requests and rules.                             *)
(***************************************************************************)
T_ExactUpper == <<"A", "A", ":", "B", "B", ":", "C", "C", ":", "D", "D", ":", "E", "E", ":", "F", "F">>
T_PrefixDash == <<"a", "a", "-", "b", "b", "-", "c", "c", "-", "1", "1", "-", "2", "2", "-", "3", "3">>
T_Unknown    == <<"f", "f", ":", "f", "f", ":", "f", "f", ":", "f", "f", ":", "f", "f", ":", "f", "f">>
T_Invalid    == <<"i", "n", "v", "a", "l", "i", "d", "-", "m", "a", "c">>
T_Empty      == <<>>
\* Twelve alphanumeric characters that int(clean_mac, 16) accepts (line 181).
T_HexPrefixed == <<"0", "x", "2", "3", "4", "5", "6", "7", "8", "9", "a", "b">>

M_Exact  == <<"a", "a", ":", "b", "b", ":", "c", "c", ":", "d", "d", ":", "e", "e", ":", "f", "f">>
P_Vendor == <<"a", "a", ":", "b", "b", ":", "c", "c">>

V_100 == <<"1", "0", "0">>
V_13  == <<"1", "3">>
V_abc == <<"a", "b", "c">>
V_0   == <<"0">>
V_neg5 == <<"-", "5">>

(***************************************************************************)
(* Requests: the attributes HandleAuthPacket reads.  None (for the NAS       *)
(* attributes and Called-Station-Id, which are only copied: "None") is an   *)
(* attribute that is not in the packet.                                     *)
(***************************************************************************)
Packets ==
    { [csid |-> T_ExactUpper, uname |-> T_ExactUpper, nas_ip |-> "192.168.1.1",
       nas_port |-> "1", called |-> "None", source |-> "ap1", code |-> "Access-Request"],
      [csid |-> None, uname |-> T_PrefixDash, nas_ip |-> "None",
       nas_port |-> "None", called |-> "None", source |-> "ap2", code |-> "Access-Request"],
      [csid |-> T_Unknown, uname |-> None, nas_ip |-> "192.168.1.1",
       nas_port |-> "1", called |-> "ssid", source |-> "ap1", code |-> "Access-Request"],
      [csid |-> T_Invalid, uname |-> T_ExactUpper, nas_ip |-> "None",
       nas_port |-> "None", called |-> "None", source |-> "ap2", code |-> "Access-Request"],
      [csid |-> T_Empty, uname |-> T_ExactUpper, nas_ip |-> "None",
       nas_port |-> "1", called |-> "ssid", source |-> "ap1", code |-> "Access-Request"],
      [csid |-> None, uname |-> None, nas_ip |-> "None",
       nas_port |-> "None", called |-> "None", source |-> "ap2", code |-> "Access-Request"],
      [csid |-> T_HexPrefixed, uname |-> T_ExactUpper, nas_ip |-> "None",
       nas_port |-> "None", called |-> "None", source |-> "ap1", code |-> "Access-Request"] }

\* Accounting-Requests, as they reach the accounting port (line 351).
AcctPackets ==
    { [csid |-> T_ExactUpper, uname |-> T_ExactUpper, nas_ip |-> "192.168.1.1",
       nas_port |-> "1", called |-> "None", source |-> "ap1", code |-> "Accounting-Request"],
      [csid |-> None, uname |-> None, nas_ip |-> "None",
       nas_port |-> "None", called |-> "None", source |-> "ap2", code |-> "Accounting-Request"] }

NoPkt == [csid |-> None, uname |-> None, nas_ip |-> "None", nas_port |-> "None",
          called |-> "None", source |-> "none", code |-> "None"]

(***************************************************************************)
(* The rule tables of the store.  A radreply row holds its value as text;   *)
(* the attribute rows beside Tunnel-Private-Group-ID are those the          *)
(* repository's setup inserts (test/test_radius.py, lines 101-105).         *)
(***************************************************************************)
RadreplyRows(mac, value) ==
    { [username |-> mac, attribute |-> "Tunnel-Type", value |-> V_13],
      [username |-> mac, attribute |-> "Tunnel-Private-Group-ID", value |-> value] }

RadreplyChoices ==
    { {}, RadreplyRows(M_Exact, V_100), RadreplyRows(M_Exact, V_abc),
      RadreplyRows(M_Exact, V_0) \cup RadreplyRows(T_Unknown, V_neg5) }

PrefixChoices == { {}, { [prefix |-> P_Vendor, vlan_id |-> 200] } }

DefaultChoices ==
    { {},
      { [id |-> 1, enabled |-> FALSE, vlan_id |-> 999] },
      { [id |-> 1, enabled |-> TRUE, vlan_id |-> 30],
        [id |-> 2, enabled |-> TRUE, vlan_id |-> 10],
        [id |-> 3, enabled |-> FALSE, vlan_id |-> 20] } }


(***************************************************************************)
(* The state.                                                               *)
(***************************************************************************)
Workers == {"w1", "w2"}

\* The thread that runs the server loop (radius_server.Run(), line 534): it
\* handles the requests one after another.
MainLoop == {"w1"}

\* The number of Access-Requests the model delivers.
MaxRequests == 2

VARIABLES
    radreply,              \* store table: DeviceRule rows
    mac_prefixes,          \* store table: PrefixRule rows
    default_vlan_config,   \* store table: DefaultPolicy rows
    radius_logs,           \* store table: the audit log, in insertion order
    storeUp,               \* whether mysql.connector.connect succeeds
    connection_pool,       \* DatabaseManager.connection_pool, by worker (thread id)
    nconn,                 \* connections made so far
    nreq,                  \* requests delivered so far
    pc,                    \* where each worker is in HandleAuthPacket
    rid,                   \* the request a worker is handling (0: none)
    pkt,                   \* its packet
    result,                \* (vlan_id, match_type) of get_vlan_for_mac
    reply,                 \* the local reply of HandleAuthPacket
    exc,                   \* the exception caught by line 456 ("none": in the try block)
    wire,                  \* the replies SendReplyPacket has transmitted
    path,                  \* history: how get_vlan_for_mac returned
    logCalls,              \* history: log_radius_request calls of the request
    sendCalls,             \* history: SendReplyPacket calls of the request
    logRet,                \* how log_radius_request ended: "True", "False" or "raised"
    callLog,               \* history: the get_vlan_for_mac calls made, and how each ended,
                           \* since the store's availability last changed
    disturbed,             \* history: the availability changed during the worker's call
    queried,               \* history: the tables the worker's call has queried, in order
    ruleLog,               \* history: the rules when the worker's call began, the rule
                           \* updates made during it, and the updates made in all
    nm_pc, nm_in, nm_out   \* a call of normalize_mac: its stage, argument and result

serverVars == <<radreply, mac_prefixes, default_vlan_config, radius_logs, storeUp,
                connection_pool, nconn, nreq, pc, rid, pkt, result, reply, exc, wire,
                path, logCalls, sendCalls, logRet, callLog, disturbed, queried, ruleLog>>

histVars == <<callLog, disturbed, queried, ruleLog>>

normVars == <<nm_pc, nm_in, nm_out>>

vars == <<serverVars, normVars>>

tables == <<radreply, mac_prefixes, default_vlan_config>>

\* No entry in connection_pool for a worker.
NoConn == [id |-> 0, alive |-> FALSE]

\* (None, None) and (vlan_id, match_type).
NoneNone == [isNone |-> TRUE, vlan_id |-> 0, match_type |-> "None"]
Found(vlan_id, match_type) == [isNone |-> FALSE, vlan_id |-> vlan_id, match_type |-> match_type]

\* reply = None (line 390).
NoReply == [code |-> "None", source |-> "none", attrs |-> <<>>]

IntAttr(name, n) == [name |-> name, type |-> "integer", int |-> n, str |-> <<>>]
StrAttr(name, text) == [name |-> name, type |-> "string", int |-> 0, str |-> text]

\* Tunnel-Type VLAN (line 488) and Tunnel-Medium-Type IEEE-802 (line 489).
TunnelTypeVlan == 13
TunnelMediumIeee802 == 6

AcceptSwappedTunnelValues(request_pkt, vlan_id) ==
    [code |-> "Access-Accept", source |-> request_pkt.source,
     attrs |-> << IntAttr("Tunnel-Type", TunnelMediumIeee802),
                  IntAttr("Tunnel-Medium-Type", TunnelTypeVlan),
                  StrAttr("Tunnel-Private-Group-ID", IntToStr(vlan_id)) >>]

RejectWithReplyMessage(request_pkt) ==
    [code |-> "Access-Reject", source |-> request_pkt.source,
     attrs |-> << StrAttr("Reply-Message", <<"d", "e", "n", "i", "e", "d">>) >>]

\* UniFiRadiusServer.create_accept_packet (lines 481-492).
create_accept_packet(request_pkt, vlan_id) ==
    [code |-> "Access-Accept", source |-> request_pkt.source,
     attrs |-> << IntAttr("Tunnel-Type", TunnelTypeVlan),
                  IntAttr("Tunnel-Medium-Type", TunnelMediumIeee802),
                  StrAttr("Tunnel-Private-Group-ID", IntToStr(vlan_id)) >>]

\* UniFiRadiusServer.create_reject_packet (lines 494-499).
create_reject_packet(request_pkt) ==
    [code |-> "Access-Reject", source |-> request_pkt.source, attrs |-> <<>>]

\* pkt.CreateReply() of HandleAcctPacket (line 504): the response to an
\* Accounting-Request, with no attribute added.
CreateAcctReply(request_pkt) ==
    [code |-> "Accounting-Response", source |-> request_pkt.source, attrs |-> <<>>]

UserNameFirst(p) == IF p.uname # None THEN p.uname ELSE p.csid

\* mac_address of HandleAuthPacket (lines 393-397).
ExtractIdentity(p) == IF p.csid # None THEN p.csid ELSE p.uname

\* `not mac_address` (line 405).
NoIdentity(p) == ExtractIdentity(p) = None \/ ExtractIdentity(p) = <<>>

\* `x or ''` (lines 312-316), of a text and of a copied attribute.
OrEmpty(text) == IF text = None THEN <<>> ELSE text
OrEmptyAttr(x) == IF x = "None" THEN "" ELSE x

\* nas_ip of HandleAuthPacket (line 400).
NasIp(p) == IF p.nas_ip # "None" THEN p.nas_ip ELSE p.source

T_unknown == <<"u", "n", "k", "n", "o", "w", "n">>

Reason(template, args) == [template |-> template, args |-> args]

\* The arguments of the log_radius_request call a worker is at: lines 459-468
\* in the except clause, else lines 408-417, 428-437 or 445-454.
LogArgs(w) ==
    LET p == pkt[w]
        mac_address == ExtractIdentity(p)
    IN  IF exc[w] # "none" THEN
            [username |-> mac_address, calling_station_id |-> p.csid,
             response_type |-> "Access-Reject",
             reason |-> Reason("Server error: {e}", << <<exc[w]>> >>)]
        ELSE IF NoIdentity(p) THEN
            [username |-> T_unknown, calling_station_id |-> p.csid,
             response_type |-> "Access-Reject",
             reason |-> Reason("No MAC address found in request", <<>>)]
        ELSE IF result[w].isNone THEN
            [username |-> mac_address, calling_station_id |-> p.csid,
             response_type |-> "Access-Reject",
             reason |-> Reason("No VLAN assignment found for MAC {mac_address}", <<mac_address>>)]
        ELSE
            [username |-> mac_address, calling_station_id |-> p.csid,
             response_type |-> "Access-Accept",
             reason |-> Reason("VLAN {vlan_id} assigned via {match_type} match",
                               <<IntToStr(result[w].vlan_id), <<result[w].match_type>>>>)]

\* As AuditRow, every row being recorded as a reject.
AuditRowAlwaysReject(w) ==
    LET a == LogArgs(w)
    IN  [req |-> rid[w],
         username |-> OrEmpty(a.username),
         nas_ip_address |-> OrEmptyAttr(NasIp(pkt[w])),
         nas_port_id |-> OrEmptyAttr(pkt[w].nas_port),
         called_station_id |-> OrEmptyAttr(pkt[w].called),
         calling_station_id |-> OrEmpty(a.calling_station_id),
         request_type |-> "Access-Request",
         response_type |-> "Access-Reject",
         reason |-> a.reason]

\* The row log_radius_request inserts (lines 306-320); req is history: the
\* request the row was written for.
AuditRow(w) ==
    LET a == LogArgs(w)
    IN  [req |-> rid[w],
         username |-> OrEmpty(a.username),
         nas_ip_address |-> OrEmptyAttr(NasIp(pkt[w])),
         nas_port_id |-> OrEmptyAttr(pkt[w].nas_port),
         called_station_id |-> OrEmptyAttr(pkt[w].called),
         calling_station_id |-> OrEmpty(a.calling_station_id),
         request_type |-> "Access-Request",
         response_type |-> a.response_type,
         reason |-> a.reason]

\* History: no rule update has been made.
NoUpdates ==
    [before |-> [w \in Workers |-> tables], during |-> [w \in Workers |-> 0],
     states |-> [w \in Workers |-> {tables}], total |-> 0]

Init ==
    /\ radreply \in RadreplyChoices
    /\ mac_prefixes \in PrefixChoices
    /\ default_vlan_config \in DefaultChoices
    /\ radius_logs = <<>>
    /\ storeUp = TRUE
    /\ connection_pool = [w \in Workers |-> NoConn]
    /\ nconn = 0
    /\ nreq = 0
    /\ pc = [w \in Workers |-> "idle"]
    /\ rid = [w \in Workers |-> 0]
    /\ pkt = [w \in Workers |-> NoPkt]
    /\ result = [w \in Workers |-> NoneNone]
    /\ reply = [w \in Workers |-> NoReply]
    /\ exc = [w \in Workers |-> "none"]
    /\ wire = <<>>
    /\ path = [w \in Workers |-> "none"]
    /\ logCalls = [w \in Workers |-> 0]
    /\ sendCalls = [w \in Workers |-> 0]
    /\ logRet = [w \in Workers |-> "none"]
    /\ callLog = <<>>
    /\ disturbed = [w \in Workers |-> FALSE]
    /\ queried = [w \in Workers |-> <<>>]
    /\ ruleLog = NoUpdates
    /\ nm_pc = "off"
    /\ nm_in = None
    /\ nm_out = None


(***************************************************************************)
(* DatabaseManager.get_connection (lines 123-135), called by worker w: the  *)
(* pool and the connection count afterwards.  The value returned is the     *)
(* worker's entry of the pool afterwards, NoConn standing for None.         *)
(***************************************************************************)
Connects(w) == connection_pool[w] = NoConn /\ storeUp

\* As PoolAfterGet, the connection being closed after each use.
PoolAfterGetClosing(w) ==
    IF Connects(w)
    THEN [connection_pool EXCEPT ![w] = [id |-> nconn + 1, alive |-> TRUE]]
    ELSE [connection_pool EXCEPT ![w].alive = FALSE]

\* As PoolAfterGet, a thread without an entry taking the connection another
\* thread has stored.
PoolAfterGetShared(w) ==
    IF connection_pool[w] = NoConn /\ \E v \in Workers : connection_pool[v] # NoConn
    THEN [connection_pool EXCEPT
             ![w] = connection_pool[CHOOSE v \in Workers : connection_pool[v] # NoConn]]
    ELSE IF Connects(w)
    THEN [connection_pool EXCEPT ![w] = [id |-> nconn + 1, alive |-> TRUE]]
    ELSE connection_pool

\* As PoolAfterGet, a failed attempt leaving an entry for the worker.
PoolAfterGetStoringFailure(w) ==
    IF Connects(w)
    THEN [connection_pool EXCEPT ![w] = [id |-> nconn + 1, alive |-> TRUE]]
    ELSE IF connection_pool[w] = NoConn
    THEN [connection_pool EXCEPT ![w] = [id |-> nconn + 1, alive |-> FALSE]]
    ELSE connection_pool

\* As PoolAfterGet, a stored connection that is no longer alive being replaced
\* by a new one.
PoolAfterGetReconnecting(w) ==
    IF Connects(w) \/ (connection_pool[w] # NoConn /\ ~connection_pool[w].alive /\ storeUp)
    THEN [connection_pool EXCEPT ![w] = [id |-> nconn + 1, alive |-> TRUE]]
    ELSE connection_pool

PoolAfterGet(w) ==
    IF Connects(w)
    THEN [connection_pool EXCEPT ![w] = [id |-> nconn + 1, alive |-> TRUE]]
    ELSE connection_pool

NconnAfterGet(w) == IF Connects(w) THEN nconn + 1 ELSE nconn

(***************************************************************************)
(* An exception reaches HandleAuthPacket: in the try block control passes   *)
(* to the except clause (line 456), whose first call is log_radius_request  *)
(* (line 459); in the except clause it leaves HandleAuthPacket.             *)
(***************************************************************************)
Raise(w, e) ==
    IF exc[w] = "none"
    THEN /\ exc' = [exc EXCEPT ![w] = e]
         /\ pc' = [pc EXCEPT ![w] = "log"]
    ELSE /\ pc' = [pc EXCEPT ![w] = "raised"]
         /\ UNCHANGED exc

(***************************************************************************)
(* get_vlan_for_mac returns res to line 423: a None vlan_id goes on to the  *)
(* log call of line 428, another builds the accept reply (line 441) and     *)
(* goes on to the log call of line 445.                                     *)
(***************************************************************************)
\* History: a get_vlan_for_mac call of worker w ends, by returning res or by
\* raising e; it is kept when the availability did not change during it.
EndOfCall(w, res, e) ==
    /\ callLog' = IF disturbed[w] THEN callLog
                  ELSE Append(callLog, [mac_address |-> ExtractIdentity(pkt[w]),
                                        res |-> res, raised |-> e])
    /\ disturbed' = [disturbed EXCEPT ![w] = FALSE]

\* History: the availability of the store changes.
AvailabilityChanges ==
    /\ callLog' = <<>>
    /\ disturbed' = [w \in Workers |-> pc[w] \in {"q_exact", "q_prefix", "q_default"}]
    /\ UNCHANGED <<queried, ruleLog>>

Returns(w, res, how) ==
    /\ EndOfCall(w, res, "none")
    /\ result' = [result EXCEPT ![w] = res]
    /\ path' = [path EXCEPT ![w] = how]
    /\ reply' = IF res.isNone THEN reply
                ELSE [reply EXCEPT ![w] = create_accept_packet(pkt[w], res.vlan_id)]
    /\ pc' = [pc EXCEPT ![w] = "log"]
    /\ UNCHANGED exc

\* get_vlan_for_mac raises e (an exception its except clause does not catch).
LookupRaises(w, e) ==
    /\ Raise(w, e)
    /\ EndOfCall(w, NoneNone, e)
    /\ UNCHANGED <<result, reply, path>>

NextQuery(w, stage) ==
    /\ pc' = [pc EXCEPT ![w] = stage]
    /\ UNCHANGED <<result, reply, path, exc, callLog, disturbed>>

NormalizedMac(w) == NormalizeMac(ExtractIdentity(pkt[w]))

\* ':'.join(normalized_mac.split(':')[:3])   (line 256)
MacPrefix(normalized_mac) == SubSeq(normalized_mac, 1, 8)

ExactRowsAnyAttribute(normalized_mac) ==
    { r \in radreply : r.username = normalized_mac }

\* As ExactRows, the device rules being seen only while the audit log is empty.
ExactRowsUntilAudited(normalized_mac) ==
    IF Len(radius_logs) > 0 THEN {}
    ELSE { r \in radreply : r.username = normalized_mac
                            /\ r.attribute = "Tunnel-Private-Group-ID" }

\* The rows the query of lines 242-246 selects from.
ExactRows(normalized_mac) ==
    { r \in radreply : r.username = normalized_mac
                       /\ r.attribute = "Tunnel-Private-Group-ID" }

\* As PrefixRows, only the connection made first seeing the rows.
PrefixRowsFirstConnectionOnly(normalized_mac) ==
    IF nconn > 1 THEN {}
    ELSE { r \in mac_prefixes : r.prefix = MacPrefix(normalized_mac) }

\* The rows the query of lines 257-261 selects from.
PrefixRows(normalized_mac) ==
    { r \in mac_prefixes : r.prefix = MacPrefix(normalized_mac) }

DefaultRowsIgnoringEnabled ==
    { r \in default_vlan_config : \A q \in default_vlan_config : q.id <= r.id }

\* As DefaultRows, with ORDER BY id ASC.
DefaultRowsOldest ==
    LET enabled == { r \in default_vlan_config : r.enabled }
    IN  { r \in enabled : \A q \in enabled : r.id <= q.id }

\* The row the query of lines 270-275 selects: enabled, greatest id.
DefaultRows ==
    LET enabled == { r \in default_vlan_config : r.enabled }
    IN  { r \in enabled : \A q \in enabled : q.id <= r.id }

(***************************************************************************)
(* HandleAuthPacket.                                                        *)
(***************************************************************************)
\* A request is delivered to HandleAuthPacket (lines 388-405).
Receive(w, p) ==
    /\ pc[w] = "idle"
    /\ nreq < MaxRequests
    /\ nreq' = nreq + 1
    /\ rid' = [rid EXCEPT ![w] = nreq + 1]
    /\ pkt' = [pkt EXCEPT ![w] = p]
    /\ pc' = [pc EXCEPT ![w] = IF NoIdentity(p) THEN "log" ELSE "lookup"]
    /\ UNCHANGED <<tables, radius_logs, storeUp, connection_pool, nconn, result, reply,
                   exc, wire, path, logCalls, sendCalls, logRet, histVars, normVars>>

\* get_vlan_for_mac up to the cursor (lines 225-238).
GetVlanConnect(w) ==
    /\ pc[w] = "lookup"
    /\ queried' = [queried EXCEPT ![w] = <<>>]
    /\ ruleLog' = [ruleLog EXCEPT !.before[w] = tables, !.during[w] = 0,
                                  !.states[w] = {tables}]
    /\ IF NormalizedMac(w) = None THEN
            /\ Returns(w, NoneNone, "invalid")
            /\ UNCHANGED <<connection_pool, nconn>>
       ELSE /\ connection_pool' = PoolAfterGet(w)
            /\ nconn' = NconnAfterGet(w)
            /\ IF PoolAfterGet(w)[w] = NoConn THEN Returns(w, NoneNone, "noconn")
               ELSE IF PoolAfterGet(w)[w].alive THEN NextQuery(w, "q_exact")
               \* conn.cursor() raises mysql.connector.Error, caught at line 287;
               \* the finally clause then reads the unbound name cursor (line 291).
               ELSE LookupRaises(w, "UnboundLocalError")
    /\ UNCHANGED <<tables, radius_logs, storeUp, nreq, rid, pkt, wire, logCalls,
                   sendCalls, logRet, normVars>>

\* The exact-match query and its result (lines 242-252).
QueryExact(w) ==
    /\ pc[w] = "q_exact"
    /\ queried' = [queried EXCEPT ![w] = Append(@, "radreply")]
    /\ UNCHANGED ruleLog
    /\ IF ~connection_pool[w].alive THEN Returns(w, NoneNone, "qerror")
       ELSE IF ExactRows(NormalizedMac(w)) = {} THEN NextQuery(w, "q_prefix")
       ELSE \E row \in ExactRows(NormalizedMac(w)) :
                IF IntOk(row.value)
                THEN Returns(w, Found(ParseInt(row.value), "exact"), "hit")
                ELSE LookupRaises(w, "ValueError")
    /\ UNCHANGED <<tables, radius_logs, storeUp, connection_pool, nconn, nreq, rid, pkt,
                   wire, logCalls, sendCalls, logRet, normVars>>

\* As QueryPrefix, the query being sent again after it failed.
QueryPrefixRetrying(w) ==
    /\ pc[w] = "q_prefix"
    /\ queried' = [queried EXCEPT ![w] = Append(@, "mac_prefixes")]
    /\ UNCHANGED ruleLog
    /\ IF ~connection_pool[w].alive THEN NextQuery(w, "q_prefix")
       ELSE IF PrefixRows(NormalizedMac(w)) = {} THEN NextQuery(w, "q_default")
       ELSE \E row \in PrefixRows(NormalizedMac(w)) :
                Returns(w, Found(row.vlan_id, "prefix"), "hit")
    /\ UNCHANGED <<tables, radius_logs, storeUp, connection_pool, nconn, nreq, rid, pkt,
                   wire, logCalls, sendCalls, logRet, normVars>>

\* The prefix query and its result (lines 256-267).
QueryPrefix(w) ==
    /\ pc[w] = "q_prefix"
    /\ queried' = [queried EXCEPT ![w] = Append(@, "mac_prefixes")]
    /\ UNCHANGED ruleLog
    /\ IF ~connection_pool[w].alive THEN Returns(w, NoneNone, "qerror")
       ELSE IF PrefixRows(NormalizedMac(w)) = {} THEN NextQuery(w, "q_default")
       ELSE \E row \in PrefixRows(NormalizedMac(w)) :
                Returns(w, Found(row.vlan_id, "prefix"), "hit")
    /\ UNCHANGED <<tables, radius_logs, storeUp, connection_pool, nconn, nreq, rid, pkt,
                   wire, logCalls, sendCalls, logRet, normVars>>

\* The default query and its result (lines 270-285).
QueryDefault(w) ==
    /\ pc[w] = "q_default"
    /\ queried' = [queried EXCEPT ![w] = Append(@, "default_vlan_config")]
    /\ UNCHANGED ruleLog
    /\ IF ~connection_pool[w].alive THEN Returns(w, NoneNone, "qerror")
       ELSE IF DefaultRows = {} THEN Returns(w, NoneNone, "nomatch")
       ELSE \E row \in DefaultRows :
                Returns(w, Found(row.vlan_id, "default"), "hit")
    /\ UNCHANGED <<tables, radius_logs, storeUp, connection_pool, nconn, nreq, rid, pkt,
                   wire, logCalls, sendCalls, logRet, normVars>>


(***************************************************************************)
(* log_radius_request returns (True or False: the caller ignores which).    *)
(* The reject branches and the except clause then build the reject reply    *)
(* (lines 418, 438, 469); the accept branch keeps the reply of line 441.    *)
(***************************************************************************)
LogReturns(w, ret) ==
    /\ logRet' = [logRet EXCEPT ![w] = ret]
    /\ reply' = IF exc[w] # "none" \/ NoIdentity(pkt[w]) \/ result[w].isNone
                THEN [reply EXCEPT ![w] = create_reject_packet(pkt[w])]
                ELSE reply
    /\ pc' = [pc EXCEPT ![w] = "send"]
    /\ UNCHANGED exc

\* log_radius_request up to the cursor (lines 299-305).
LogCursor(w) ==
    /\ pc[w] = "log"
    /\ logCalls' = [logCalls EXCEPT ![w] = @ + 1]
    /\ connection_pool' = PoolAfterGet(w)
    /\ nconn' = NconnAfterGet(w)
    /\ IF PoolAfterGet(w)[w] = NoConn THEN LogReturns(w, "False")
       ELSE IF PoolAfterGet(w)[w].alive THEN
            /\ pc' = [pc EXCEPT ![w] = "log_insert"]
            /\ UNCHANGED <<reply, exc, logRet>>
       \* conn.cursor() raises mysql.connector.Error, caught at line 322;
       \* the finally clause then reads the unbound name cursor (line 326).
       ELSE /\ Raise(w, "UnboundLocalError")
            /\ logRet' = [logRet EXCEPT ![w] = "raised"]
            /\ UNCHANGED reply
    /\ UNCHANGED <<tables, radius_logs, storeUp, nreq, rid, pkt, result, wire, path,
                   sendCalls, histVars, normVars>>

\* As LogInsert, with the INSERT executed twice.
LogInsertTwice(w) ==
    /\ pc[w] = "log_insert"
    /\ radius_logs' = IF connection_pool[w].alive
                      THEN radius_logs \o <<AuditRow(w), AuditRow(w)>>
                      ELSE radius_logs
    /\ LogReturns(w, IF connection_pool[w].alive THEN "True" ELSE "False")
    /\ UNCHANGED <<tables, storeUp, connection_pool, nconn, nreq, rid, pkt, result, wire,
                   path, logCalls, sendCalls, histVars, normVars>>

\* As LogInsert, the new row taking the place of the rows written before.
LogInsertOverwriting(w) ==
    /\ pc[w] = "log_insert"
    /\ radius_logs' = IF connection_pool[w].alive THEN <<AuditRow(w)>> ELSE radius_logs
    /\ LogReturns(w, IF connection_pool[w].alive THEN "True" ELSE "False")
    /\ UNCHANGED <<tables, storeUp, connection_pool, nconn, nreq, rid, pkt, result, wire,
                   path, logCalls, sendCalls, histVars, normVars>>

\* The INSERT of log_radius_request and its return (lines 306-326).
LogInsert(w) ==
    /\ pc[w] = "log_insert"
    /\ radius_logs' = IF connection_pool[w].alive
                      THEN Append(radius_logs, AuditRow(w))
                      ELSE radius_logs
    /\ LogReturns(w, IF connection_pool[w].alive THEN "True" ELSE "False")
    /\ UNCHANGED <<tables, storeUp, connection_pool, nconn, nreq, rid, pkt, result, wire,
                   path, logCalls, sendCalls, histVars, normVars>>

\* As SendReply, a failed transmission being followed by a second attempt.
SendReplyResending(w) ==
    /\ pc[w] = "send"
    /\ \E transmitted \in BOOLEAN :
          /\ sendCalls' = [sendCalls EXCEPT ![w] = IF transmitted THEN @ + 1 ELSE @ + 2]
          /\ wire' = Append(wire, [req |-> rid[w], reply |-> reply[w]])
    /\ pc' = [pc EXCEPT ![w] = "done"]
    /\ UNCHANGED <<tables, radius_logs, storeUp, connection_pool, nconn, nreq, rid, pkt,
                   result, reply, exc, path, logCalls, logRet, histVars, normVars>>

\* The reply is sent (lines 472-479): authfds holds the socket of the address
\* of line 345; SendReplyPacket transmits the reply or raises (line 476).
SendReply(w) ==
    /\ pc[w] = "send"
    /\ sendCalls' = [sendCalls EXCEPT ![w] = @ + 1]
    /\ \E transmitted \in BOOLEAN :
            wire' = IF transmitted
                    THEN Append(wire, [req |-> rid[w], reply |-> reply[w]])
                    ELSE wire
    /\ pc' = [pc EXCEPT ![w] = "done"]
    /\ UNCHANGED <<tables, radius_logs, storeUp, connection_pool, nconn, nreq, rid, pkt,
                   result, reply, exc, path, logCalls, logRet, histVars, normVars>>

\* UniFiRadiusServer.HandleAcctPacket (lines 501-505): the reply is built and
\* returned to the caller in the server loop; no SendReplyPacket call is made.
HandleAcctPacket(w, p) ==
    /\ pc[w] = "idle"
    /\ nreq < MaxRequests
    /\ nreq' = nreq + 1
    /\ rid' = [rid EXCEPT ![w] = nreq + 1]
    /\ pkt' = [pkt EXCEPT ![w] = p]
    /\ reply' = [reply EXCEPT ![w] = CreateAcctReply(p)]
    /\ pc' = [pc EXCEPT ![w] = "acct_done"]
    /\ UNCHANGED <<tables, radius_logs, storeUp, connection_pool, nconn, result, exc,
                   wire, path, logCalls, sendCalls, logRet, histVars, normVars>>

\* The handler returned: the server loop is free for the next packet.
Return(w) ==
    /\ pc[w] \in {"done", "acct_done"}
    /\ pc' = [pc EXCEPT ![w] = "idle"]
    /\ rid' = [rid EXCEPT ![w] = 0]
    /\ pkt' = [pkt EXCEPT ![w] = NoPkt]
    /\ result' = [result EXCEPT ![w] = NoneNone]
    /\ reply' = [reply EXCEPT ![w] = NoReply]
    /\ exc' = [exc EXCEPT ![w] = "none"]
    /\ path' = [path EXCEPT ![w] = "none"]
    /\ logCalls' = [logCalls EXCEPT ![w] = 0]
    /\ sendCalls' = [sendCalls EXCEPT ![w] = 0]
    /\ logRet' = [logRet EXCEPT ![w] = "none"]
    /\ queried' = [queried EXCEPT ![w] = <<>>]
    /\ UNCHANGED <<tables, radius_logs, storeUp, connection_pool, nconn, nreq, wire,
                   callLog, disturbed, ruleLog, normVars>>

\* The exception that left the handler leaves radius_server.Run() (line 534):
\* main logs it and ends the process with sys.exit(1) (lines 536-538).
ServerExits(w) ==
    /\ pc[w] = "raised"
    /\ pc' = [pc EXCEPT ![w] = "exited"]
    /\ UNCHANGED <<tables, radius_logs, storeUp, connection_pool, nconn, nreq, rid, pkt,
                   result, reply, exc, wire, path, logCalls, sendCalls, logRet, histVars,
                   normVars>>

(***************************************************************************)
(* The store, seen from the server: it stops or starts accepting            *)
(* connections, and an established connection is lost.                      *)
(***************************************************************************)
StoreGoesDown ==
    /\ storeUp
    /\ storeUp' = FALSE
    /\ connection_pool' = [w \in Workers |-> [connection_pool[w] EXCEPT !.alive = FALSE]]
    /\ AvailabilityChanges
    /\ UNCHANGED <<tables, radius_logs, nconn, nreq, pc, rid, pkt, result, reply, exc,
                   wire, path, logCalls, sendCalls, logRet, normVars>>

StoreComesUp ==
    /\ ~storeUp
    /\ storeUp' = TRUE
    /\ AvailabilityChanges
    /\ UNCHANGED <<tables, radius_logs, connection_pool, nconn, nreq, pc, rid, pkt,
                   result, reply, exc, wire, path, logCalls, sendCalls, logRet, normVars>>

ConnectionLost(w) ==
    /\ connection_pool[w].alive
    /\ connection_pool' = [connection_pool EXCEPT ![w].alive = FALSE]
    /\ AvailabilityChanges
    /\ UNCHANGED <<tables, radius_logs, storeUp, nconn, nreq, pc, rid, pkt, result,
                   reply, exc, wire, path, logCalls, sendCalls, logRet, normVars>>

Next ==
    \/ \E w \in MainLoop, p \in Packets : Receive(w, p)
    \/ \E w \in MainLoop : GetVlanConnect(w)
    \/ \E w \in MainLoop : QueryExact(w)
    \/ \E w \in MainLoop : QueryPrefix(w)
    \/ \E w \in MainLoop : QueryDefault(w)
    \/ \E w \in MainLoop : LogCursor(w)
    \/ \E w \in MainLoop : LogInsert(w)
    \/ \E w \in MainLoop : SendReply(w)
    \/ \E w \in MainLoop, p \in AcctPackets : HandleAcctPacket(w, p)
    \/ \E w \in MainLoop : Return(w)
    \/ \E w \in MainLoop : ServerExits(w)
    \/ \E w \in Workers : ConnectionLost(w)
    \/ StoreGoesDown
    \/ StoreComesUp

Spec == Init /\ [][Next]_vars

(***************************************************************************)
(* Handlers on two threads at once, as connection_pool provides for (lines  *)
(* 97-98, 104-107): the store is available and the rules do not change.     *)
(***************************************************************************)
ConcPackets ==
    { p \in Packets : ExtractIdentity(p) \in {T_ExactUpper, T_PrefixDash, T_Unknown} }

InitConc ==
    /\ radreply = RadreplyRows(M_Exact, V_100)
    /\ mac_prefixes \in PrefixChoices
    /\ default_vlan_config \in { d \in DefaultChoices : Cardinality(d) # 1 }
    /\ radius_logs = <<>>
    /\ storeUp = TRUE
    /\ connection_pool = [w \in Workers |-> NoConn]
    /\ nconn = 0
    /\ nreq = 0
    /\ pc = [w \in Workers |-> "idle"]
    /\ rid = [w \in Workers |-> 0]
    /\ pkt = [w \in Workers |-> NoPkt]
    /\ result = [w \in Workers |-> NoneNone]
    /\ reply = [w \in Workers |-> NoReply]
    /\ exc = [w \in Workers |-> "none"]
    /\ wire = <<>>
    /\ path = [w \in Workers |-> "none"]
    /\ logCalls = [w \in Workers |-> 0]
    /\ sendCalls = [w \in Workers |-> 0]
    /\ logRet = [w \in Workers |-> "none"]
    /\ callLog = <<>>
    /\ disturbed = [w \in Workers |-> FALSE]
    /\ queried = [w \in Workers |-> <<>>]
    /\ ruleLog = NoUpdates
    /\ nm_pc = "off"
    /\ nm_in = None
    /\ nm_out = None

NextConc ==
    \/ \E w \in Workers, p \in ConcPackets : Receive(w, p)
    \/ \E w \in Workers : GetVlanConnect(w)
    \/ \E w \in Workers : QueryExact(w)
    \/ \E w \in Workers : QueryPrefix(w)
    \/ \E w \in Workers : QueryDefault(w)
    \/ \E w \in Workers : LogCursor(w)
    \/ \E w \in Workers : LogInsert(w)
    \/ \E w \in Workers : SendReply(w)
    \/ \E w \in Workers : Return(w)

SpecConc == InitConc /\ [][NextConc]_vars

(***************************************************************************)
(* Rules changed in the store while the server runs.  The rows of the rule  *)
(* tables are written by the administration outside this program; one       *)
(* update inserts, changes or deletes one rule row.                         *)
(***************************************************************************)
\* The number of rule updates the model makes.
MaxUpdates == 2

DeviceUniverse ==
    { [username |-> M_Exact, attribute |-> "Tunnel-Private-Group-ID", value |-> v] :
          v \in {V_100, V_13} }

PrefixUniverse == { [prefix |-> P_Vendor, vlan_id |-> v] : v \in {200, 300} }

DefaultUniverse ==
    { [id |-> 1, enabled |-> e, vlan_id |-> 10] : e \in BOOLEAN }
        \cup { [id |-> 2, enabled |-> e, vlan_id |-> 20] : e \in BOOLEAN }

\* What identifies a rule row in its table.
RuleKey(r) ==
    IF "username" \in DOMAIN r THEN <<r.username, r.attribute>>
    ELSE IF "prefix" \in DOMAIN r THEN <<r.prefix>>
    ELSE <<r.id>>

SameRule(a, b) == RuleKey(a) = RuleKey(b)

\* The tables one update of one rule can make of a table.
SingleRuleUpdates(table, universe) ==
    { table \cup {u} : u \in { x \in universe : \A t \in table : ~SameRule(t, x) } }
        \cup { table \ {r} : r \in table \cap universe }
        \cup { (table \ {ru[1]}) \cup {ru[2]} :
                   ru \in { x \in (table \cap universe) \X universe :
                                SameRule(x[1], x[2]) /\ x[1] # x[2] } }

\* History: an update is made, during the calls that are at their queries.
UpdateLogged ==
    /\ ruleLog' = [ruleLog EXCEPT
                     !.total = @ + 1,
                     !.during = [w \in Workers |->
                                    IF pc[w] \in {"q_exact", "q_prefix", "q_default"}
                                    THEN @[w] + 1 ELSE @[w]],
                     !.states = [w \in Workers |->
                                    IF pc[w] \in {"q_exact", "q_prefix", "q_default"}
                                    THEN @[w] \cup {tables'} ELSE @[w]]]
    /\ callLog' = <<>>
    /\ disturbed' = [w \in Workers |-> pc[w] \in {"q_exact", "q_prefix", "q_default"}]
    /\ UNCHANGED queried

\* As UpdateRule, a device rule and a prefix rule being changed at once.
UpdateTwoRules ==
    /\ ruleLog.total < MaxUpdates
    /\ radreply' \in SingleRuleUpdates(radreply, DeviceUniverse)
    /\ mac_prefixes' \in SingleRuleUpdates(mac_prefixes, PrefixUniverse)
    /\ UNCHANGED default_vlan_config
    /\ UpdateLogged
    /\ UNCHANGED <<radius_logs, storeUp, connection_pool, nconn, nreq, pc, rid, pkt, result,
                   reply, exc, wire, path, logCalls, sendCalls, logRet, normVars>>

UpdateRule ==
    /\ ruleLog.total < MaxUpdates
    /\ \/ /\ radreply' \in SingleRuleUpdates(radreply, DeviceUniverse)
          /\ UNCHANGED <<mac_prefixes, default_vlan_config>>
       \/ /\ mac_prefixes' \in SingleRuleUpdates(mac_prefixes, PrefixUniverse)
          /\ UNCHANGED <<radreply, default_vlan_config>>
       \/ /\ default_vlan_config' \in
                 SingleRuleUpdates(default_vlan_config, DefaultUniverse)
          /\ UNCHANGED <<radreply, mac_prefixes>>
    /\ UpdateLogged
    /\ UNCHANGED <<radius_logs, storeUp, connection_pool, nconn, nreq, pc, rid, pkt, result,
                   reply, exc, wire, path, logCalls, sendCalls, logRet, normVars>>

UpdPackets == { p \in Packets : ExtractIdentity(p) = T_ExactUpper }

InitUpd ==
    /\ radreply \in { {}, RadreplyRows(M_Exact, V_100) }
    /\ mac_prefixes \in PrefixChoices
    /\ default_vlan_config = { [id |-> 1, enabled |-> TRUE, vlan_id |-> 10] }
    /\ radius_logs = <<>>
    /\ storeUp = TRUE
    /\ connection_pool = [w \in Workers |-> NoConn]
    /\ nconn = 0
    /\ nreq = 0
    /\ pc = [w \in Workers |-> "idle"]
    /\ rid = [w \in Workers |-> 0]
    /\ pkt = [w \in Workers |-> NoPkt]
    /\ result = [w \in Workers |-> NoneNone]
    /\ reply = [w \in Workers |-> NoReply]
    /\ exc = [w \in Workers |-> "none"]
    /\ wire = <<>>
    /\ path = [w \in Workers |-> "none"]
    /\ logCalls = [w \in Workers |-> 0]
    /\ sendCalls = [w \in Workers |-> 0]
    /\ logRet = [w \in Workers |-> "none"]
    /\ callLog = <<>>
    /\ disturbed = [w \in Workers |-> FALSE]
    /\ queried = [w \in Workers |-> <<>>]
    /\ ruleLog = NoUpdates
    /\ nm_pc = "off"
    /\ nm_in = None
    /\ nm_out = None

NextUpd ==
    \/ \E w \in MainLoop, p \in UpdPackets : Receive(w, p)
    \/ \E w \in MainLoop : GetVlanConnect(w)
    \/ \E w \in MainLoop : QueryExact(w)
    \/ \E w \in MainLoop : QueryPrefix(w)
    \/ \E w \in MainLoop : QueryDefault(w)
    \/ \E w \in MainLoop : LogCursor(w)
    \/ \E w \in MainLoop : LogInsert(w)
    \/ \E w \in MainLoop : SendReply(w)
    \/ \E w \in MainLoop : Return(w)
    \/ UpdateRule

SpecUpd == InitUpd /\ [][NextUpd]_vars

(***************************************************************************)
(* The server loop over time.  The connection is made without a timeout     *)
(* (self.config, lines 89-96), so cursor.execute waits for as long as the   *)
(* store takes: a query may never return.  The loop takes the next packet   *)
(* when the handler of the one before has returned.                         *)
(***************************************************************************)
QueryHangs(w) ==
    /\ pc[w] \in {"q_exact", "q_prefix", "q_default"}
    /\ pc' = [pc EXCEPT ![w] = "hung"]
    /\ UNCHANGED <<tables, radius_logs, storeUp, connection_pool, nconn, nreq, rid, pkt,
                   result, reply, exc, wire, path, logCalls, sendCalls, logRet, histVars,
                   normVars>>

InitLive ==
    /\ radreply \in { {}, RadreplyRows(M_Exact, V_100) }
    /\ mac_prefixes \in PrefixChoices
    /\ default_vlan_config = {}
    /\ radius_logs = <<>>
    /\ storeUp = TRUE
    /\ connection_pool = [w \in Workers |-> NoConn]
    /\ nconn = 0
    /\ nreq = 0
    /\ pc = [w \in Workers |-> "idle"]
    /\ rid = [w \in Workers |-> 0]
    /\ pkt = [w \in Workers |-> NoPkt]
    /\ result = [w \in Workers |-> NoneNone]
    /\ reply = [w \in Workers |-> NoReply]
    /\ exc = [w \in Workers |-> "none"]
    /\ wire = <<>>
    /\ path = [w \in Workers |-> "none"]
    /\ logCalls = [w \in Workers |-> 0]
    /\ sendCalls = [w \in Workers |-> 0]
    /\ logRet = [w \in Workers |-> "none"]
    /\ callLog = <<>>
    /\ disturbed = [w \in Workers |-> FALSE]
    /\ queried = [w \in Workers |-> <<>>]
    /\ ruleLog = NoUpdates
    /\ nm_pc = "off"
    /\ nm_in = None
    /\ nm_out = None

NextLive ==
    \/ \E w \in MainLoop, p \in ConcPackets : Receive(w, p)
    \/ \E w \in MainLoop : GetVlanConnect(w)
    \/ \E w \in MainLoop : QueryExact(w)
    \/ \E w \in MainLoop : QueryPrefix(w)
    \/ \E w \in MainLoop : QueryDefault(w)
    \/ \E w \in MainLoop : LogCursor(w)
    \/ \E w \in MainLoop : LogInsert(w)
    \/ \E w \in MainLoop : SendReply(w)
    \/ \E w \in MainLoop : Return(w)
    \/ \E w \in MainLoop : QueryHangs(w)

\* The loop does not stop by itself: a packet that waits is taken, a handler
\* that can go on does.  Nothing makes a query return.
FairLoop ==
    \A w \in MainLoop :
        /\ WF_vars(\E p \in ConcPackets : Receive(w, p))
        /\ WF_vars(GetVlanConnect(w))
        /\ WF_vars(QueryExact(w))
        /\ WF_vars(QueryPrefix(w))
        /\ WF_vars(QueryDefault(w))
        /\ WF_vars(LogCursor(w))
        /\ WF_vars(LogInsert(w))
        /\ WF_vars(SendReply(w))
        /\ WF_vars(Return(w))

SpecLive == InitLive /\ [][NextLive]_vars /\ FairLoop

(***************************************************************************)
(* main (lines 512-538): the store connection is tested on the thread that  *)
(* then runs the server loop; sys.exit(1) follows a failed test (line 526)  *)
(* as it follows an exception out of Run() (line 538).                      *)
(***************************************************************************)
\* As MainTestConnection, the listener being started whatever the test gave.
MainIgnoringFailure(w) ==
    /\ pc[w] = "main"
    /\ connection_pool' = PoolAfterGet(w)
    /\ nconn' = NconnAfterGet(w)
    /\ pc' = [pc EXCEPT ![w] = "idle"]
    /\ UNCHANGED <<tables, radius_logs, storeUp, nreq, rid, pkt, result, reply, exc,
                   wire, path, logCalls, sendCalls, logRet, histVars, normVars>>

\* The test of line 524 and what follows it: exit (line 526) or the server
\* loop (lines 530-534).
MainTestConnection(w) ==
    /\ pc[w] = "main"
    /\ connection_pool' = PoolAfterGet(w)
    /\ nconn' = NconnAfterGet(w)
    /\ pc' = [pc EXCEPT ![w] = IF PoolAfterGet(w)[w] = NoConn THEN "exited" ELSE "idle"]
    /\ UNCHANGED <<tables, radius_logs, storeUp, nreq, rid, pkt, result, reply, exc,
                   wire, path, logCalls, sendCalls, logRet, histVars, normVars>>

InitMain ==
    /\ radreply \in { {}, RadreplyRows(M_Exact, V_100) }
    /\ mac_prefixes \in PrefixChoices
    /\ default_vlan_config = {}
    /\ radius_logs = <<>>
    /\ storeUp \in BOOLEAN
    /\ connection_pool = [w \in Workers |-> NoConn]
    /\ nconn = 0
    /\ nreq = 0
    /\ pc = [w \in Workers |-> IF w \in MainLoop THEN "main" ELSE "idle"]
    /\ rid = [w \in Workers |-> 0]
    /\ pkt = [w \in Workers |-> NoPkt]
    /\ result = [w \in Workers |-> NoneNone]
    /\ reply = [w \in Workers |-> NoReply]
    /\ exc = [w \in Workers |-> "none"]
    /\ wire = <<>>
    /\ path = [w \in Workers |-> "none"]
    /\ logCalls = [w \in Workers |-> 0]
    /\ sendCalls = [w \in Workers |-> 0]
    /\ logRet = [w \in Workers |-> "none"]
    /\ callLog = <<>>
    /\ disturbed = [w \in Workers |-> FALSE]
    /\ queried = [w \in Workers |-> <<>>]
    /\ ruleLog = NoUpdates
    /\ nm_pc = "off"
    /\ nm_in = None
    /\ nm_out = None

NextMain ==
    \/ \E w \in MainLoop : MainTestConnection(w)
    \/ \E w \in MainLoop, p \in ConcPackets : Receive(w, p)
    \/ \E w \in MainLoop : GetVlanConnect(w)
    \/ \E w \in MainLoop : QueryExact(w)
    \/ \E w \in MainLoop : QueryPrefix(w)
    \/ \E w \in MainLoop : QueryDefault(w)
    \/ \E w \in MainLoop : LogCursor(w)
    \/ \E w \in MainLoop : LogInsert(w)
    \/ \E w \in MainLoop : SendReply(w)
    \/ \E w \in MainLoop, p \in AcctPackets : HandleAcctPacket(w, p)
    \/ \E w \in MainLoop : Return(w)
    \/ \E w \in MainLoop : ServerExits(w)
    \/ \E w \in MainLoop : ConnectionLost(w)
    \/ StoreGoesDown
    \/ StoreComesUp

SpecMain == InitMain /\ [][NextMain]_vars

(***************************************************************************)
(* normalize_mac as a function: one call on each input.                     *)
(***************************************************************************)
NormInit ==
    /\ radreply = {}
    /\ mac_prefixes = {}
    /\ default_vlan_config = {}
    /\ radius_logs = <<>>
    /\ storeUp = TRUE
    /\ connection_pool = [w \in Workers |-> NoConn]
    /\ nconn = 0
    /\ nreq = 0
    /\ pc = [w \in Workers |-> "idle"]
    /\ rid = [w \in Workers |-> 0]
    /\ pkt = [w \in Workers |-> NoPkt]
    /\ result = [w \in Workers |-> NoneNone]
    /\ reply = [w \in Workers |-> NoReply]
    /\ exc = [w \in Workers |-> "none"]
    /\ wire = <<>>
    /\ path = [w \in Workers |-> "none"]
    /\ logCalls = [w \in Workers |-> 0]
    /\ sendCalls = [w \in Workers |-> 0]
    /\ logRet = [w \in Workers |-> "none"]
    /\ callLog = <<>>
    /\ disturbed = [w \in Workers |-> FALSE]
    /\ queried = [w \in Workers |-> <<>>]
    /\ ruleLog = NoUpdates
    /\ nm_pc = "call"
    /\ nm_in \in NormInputs
    /\ nm_out = None

NormCall ==
    /\ nm_pc = "call"
    /\ nm_out' = NormalizeMac(nm_in)
    /\ nm_pc' = "done"
    /\ UNCHANGED <<serverVars, nm_in>>

NormNext == NormCall

SpecNorm == NormInit /\ [][NormNext]_vars


(***************************************************************************)
(* The claims.                                                              *)
(***************************************************************************)
\* HandleAuthPacket is over for the request of worker w: it returned
\* ("done") or an exception left it ("raised").
Finished(w) == pc[w] \in {"done", "raised"}

\* The audit rows written for request r, and the replies transmitted for it.
RowsFor(r) == { i \in DOMAIN radius_logs : radius_logs[i].req = r }
SentFor(r) == { i \in DOMAIN wire : wire[i].req = r }

\* C1: every Access-Request delivered to HandleAuthPacket gets exactly one
\* reply: when the handler is over, it has passed exactly one reply to
\* SendReplyPacket, never none and never two.
C1_ExactlyOneReply ==
    \A w \in Workers : Finished(w) => sendCalls[w] = 1

\* C2 (as claimed): when HandleAuthPacket returns, exactly one audit row has
\* been appended to radius_logs for the request, also when the store is
\* unavailable.
C2_ExactlyOneAuditRecord ==
    \A w \in Workers : pc[w] = "done" => Cardinality(RowsFor(rid[w])) = 1

\* C2 (amended): no request ever has two audit rows, and when HandleAuthPacket
\* returns the request has one audit row exactly when log_radius_request
\* returned True (the store took the insert), and none when it returned False.
C2_AtMostOneAuditRecord ==
    /\ \A r \in 1..nreq : Cardinality(RowsFor(r)) <= 1
    /\ \A w \in Workers :
          pc[w] = "done" =>
             /\ logRet[w] \in {"True", "False"}
             /\ Cardinality(RowsFor(rid[w])) = (IF logRet[w] = "True" THEN 1 ELSE 0)

C2_Witness ==
    \E w \in Workers :
        /\ pc[w] = "done"
        /\ logRet[w] = "True"
        /\ Cardinality(RowsFor(rid[w])) = 1

\* C3: when a step of HandleAuthPacket raised an unexpected exception, the
\* handler still returns normally having sent exactly one Access-Reject: no
\* exception leaves HandleAuthPacket.
C3_FaultStillOneReject ==
    \A w \in Workers :
        (exc[w] # "none" /\ Finished(w)) =>
            /\ pc[w] = "done"
            /\ sendCalls[w] = 1
            /\ reply[w].code = "Access-Reject"


(***************************************************************************)
(* The rule set as the claims speak of it, for the request of worker w.     *)
(***************************************************************************)
\* The identity of the request: Calling-Station-Id when present, else User-Name.
ClaimIdentity(w) == IF pkt[w].csid # None THEN pkt[w].csid ELSE pkt[w].uname

\* The MAC the identity normalizes to, or None.
ClaimMac(w) == NormalizeMac(ClaimIdentity(w))

DeviceValues(mac) ==
    { r.value : r \in { q \in radreply : q.username = mac
                                         /\ q.attribute = "Tunnel-Private-Group-ID" } }

HasDeviceRule(mac) == DeviceValues(mac) # {}

PrefixVlans(mac) ==
    { r.vlan_id : r \in { q \in mac_prefixes : q.prefix = SubSeq(mac, 1, 8) } }

HasPrefixRule(mac) == PrefixVlans(mac) # {}

EnabledDefaultVlans == { r.vlan_id : r \in { q \in default_vlan_config : q.enabled } }

HasEnabledDefault == EnabledDefaultVlans # {}

HasAssignment(w) ==
    /\ ClaimMac(w) # None
    /\ HasDeviceRule(ClaimMac(w)) \/ HasPrefixRule(ClaimMac(w)) \/ HasEnabledDefault

\* get_vlan_for_mac ran its queries to a result, with no store failure.
Looked(w) == path[w] \in {"hit", "nomatch"}

C5_ExactBeforePrefix ==
    \A w \in Workers :
        (rid[w] # 0 /\ ClaimMac(w) # None) =>
            LET mac == ClaimMac(w)
                res == result[w]
            IN  /\ (Looked(w) /\ HasDeviceRule(mac) /\ HasPrefixRule(mac)) =>
                      /\ ~res.isNone
                      /\ res.match_type = "exact"
                      /\ IntToStr(res.vlan_id) \in DeviceValues(mac)
                /\ res.match_type = "prefix" =>
                      /\ ~HasDeviceRule(mac)
                      /\ res.vlan_id \in PrefixVlans(mac)
                /\ (Looked(w) /\ ~HasDeviceRule(mac) /\ HasPrefixRule(mac)) =>
                      /\ ~res.isNone
                      /\ res.match_type = "prefix"
                      /\ res.vlan_id \in PrefixVlans(mac)

C5_Witness ==
    \E w \in Workers :
        /\ ClaimMac(w) # None
        /\ Looked(w)
        /\ HasDeviceRule(ClaimMac(w)) /\ HasPrefixRule(ClaimMac(w))
        /\ result[w] = Found(100, "exact")

\* C6: for a valid MAC with no DeviceRule and no PrefixRule, get_vlan_for_mac
\* returns the default VLAN as 'default' when an enabled DefaultPolicy row
\* exists and (None, None) when none does; a MAC that has an exact or prefix
\* rule never gets the default.
C6_DefaultFallback ==
    \A w \in Workers :
        (rid[w] # 0 /\ ClaimMac(w) # None /\ Looked(w)) =>
            LET mac == ClaimMac(w)
                res == result[w]
            IN  /\ (~HasDeviceRule(mac) /\ ~HasPrefixRule(mac) /\ HasEnabledDefault) =>
                      /\ ~res.isNone
                      /\ res.match_type = "default"
                      /\ res.vlan_id \in EnabledDefaultVlans
                /\ (~HasDeviceRule(mac) /\ ~HasPrefixRule(mac) /\ ~HasEnabledDefault) =>
                      res = NoneNone
                /\ (HasDeviceRule(mac) \/ HasPrefixRule(mac)) =>
                      res.match_type \in {"exact", "prefix"}

C6_Witness ==
    \E w \in Workers :
        /\ ClaimMac(w) # None
        /\ Looked(w)
        /\ ~HasDeviceRule(ClaimMac(w)) /\ ~HasPrefixRule(ClaimMac(w))
        /\ HasEnabledDefault
        /\ result[w].match_type = "default"

\* The wording of the audit reason of line 436.
NoAssignmentTemplate == "No VLAN assignment found for MAC {mac_address}"

\* C7: when the store connection cannot be obtained or a lookup query fails,
\* get_vlan_for_mac gives its caller something other than the (None, None) of
\* a legitimate no-match, and the audit reason of the request differs from
\* the reason recorded for a MAC without VLAN assignment.
C7_StoreFailureTold ==
    \A w \in Workers :
        path[w] \in {"noconn", "qerror"} =>
            /\ result[w] # NoneNone
            /\ \A i \in RowsFor(rid[w]) :
                  radius_logs[i].reason.template # NoAssignmentTemplate

\* C8: a request whose identity fails normalize_mac is rejected with an audit
\* reason other than the reason recorded for a well-formed MAC without VLAN
\* assignment.
C8_MalformedTold ==
    \A w \in Workers :
        (rid[w] # 0 /\ ClaimIdentity(w) \notin {None, <<>>} /\ ClaimMac(w) = None) =>
            \A i \in RowsFor(rid[w]) :
                radius_logs[i].reason.template # NoAssignmentTemplate

(***************************************************************************)
(* normalize_mac.                                                           *)
(***************************************************************************)
HexLowerDigits == Digits \cup {"a", "b", "c", "d", "e", "f"}

HexAnyCase == HexLowerDigits \cup {"A", "B", "C", "D", "E", "F"}

IsCanonical(text) ==
    /\ Len(text) = 17
    /\ \A k \in 1..17 : IF k % 3 = 0 THEN text[k] = ":" ELSE text[k] \in HexLowerDigits

\* C9: normalize_mac returns None for every input whose separator-stripped,
\* lower-cased form has a length other than 12 or holds a character that is
\* not a hex digit 0-9a-f (the empty text and None included), so every other
\* result is 12 hex digits in six colon-joined pairs.
C9_InvalidRejected ==
    nm_pc = "done" =>
        /\ ( \/ nm_in = None
             \/ Len(CleanMac(nm_in)) # 12
             \/ \E i \in 1..Len(CleanMac(nm_in)) : CleanMac(nm_in)[i] \notin HexLowerDigits )
           => nm_out = None
        /\ nm_out # None => IsCanonical(nm_out)

HexDigitsOf(text) == SelectSeq(text, LAMBDA c : c \in HexAnyCase)

\* The input is 12 hex digits in any letter case, with colons, dashes, spaces
\* or nothing between them.
IsTwelveHexWritten(text) ==
    /\ \A i \in 1..Len(text) : text[i] \in HexAnyCase \cup {":", "-", " "}
    /\ Len(HexDigitsOf(text)) = 12

LowerHex(c) ==
    CASE c = "A" -> "a" [] c = "B" -> "b" [] c = "C" -> "c"
      [] c = "D" -> "d" [] c = "E" -> "e" [] c = "F" -> "f" [] OTHER -> c

\* The 12 digits lower-cased, as six pairs joined by colons.
Canonical(digits) ==
    [k \in 1..17 |-> IF k % 3 = 0 THEN ":" ELSE LowerHex(digits[k - (k \div 3)])]

\* C10: for 12 hex digits written in any letter case and with colons, dashes,
\* spaces or no separators, normalize_mac returns the canonical value: the
\* digits lower-cased, as six pairs joined by colons.
C10_CanonicalForm ==
    (nm_pc = "done" /\ IsTwelveHexWritten(nm_in)) =>
        nm_out = Canonical(HexDigitsOf(nm_in))

C10_Witness ==
    /\ nm_pc = "done"
    /\ nm_in = <<"A", "a", "-", "B", "b", " ", "C", "c", "D", "d", ":", "E", "e", "-", "F", "f">>
    /\ nm_out = M_Exact

(***************************************************************************)
(* Requests whose identity is not a MAC, and the content of the replies.    *)
(***************************************************************************)
\* Worker w handles an Access-Request.
InAuth(w) == rid[w] # 0 /\ pkt[w].code = "Access-Request"

\* The request carries an identity, and it does not normalize to a valid MAC.
MalformedIdentity(w) ==
    /\ InAuth(w)
    /\ ClaimIdentity(w) # None /\ ClaimIdentity(w) # <<>>
    /\ ~(ClaimMac(w) # None /\ IsCanonical(ClaimMac(w)))

\* C11: for an identity that does not normalize to a valid MAC, no store
\* query is issued to decide the request (get_vlan_for_mac returns before it
\* obtains a connection and before any of its three queries), and the
\* request is rejected.
C11_InvalidNoQuery ==
    \A w \in Workers :
        MalformedIdentity(w) =>
            /\ pc[w] \notin {"q_exact", "q_prefix", "q_default"}
            /\ path[w] \in {"none", "invalid"}
            /\ Finished(w) =>
                  /\ pc[w] = "done"
                  /\ sendCalls[w] = 1
                  /\ reply[w].code = "Access-Reject"

\* The text is the decimal writing of n: digits only, no leading zero, a
\* minus sign before a negative number.
IsDecimalOf(text, n) ==
    LET digits == IF n < 0 THEN Tail(text) ELSE text
    IN  /\ text # <<>>
        /\ n < 0 => text[1] = "-"
        /\ digits # <<>>
        /\ \A i \in 1..Len(digits) : digits[i] \in Digits
        /\ Len(digits) > 1 => digits[1] # "0"
        /\ DecimalValue(digits) = (IF n < 0 THEN 0 - n ELSE n)

\* The reply is an Access-Accept for VLAN n addressed to source: exactly the
\* three tunnel attributes, with the values 13, 6 and the decimal text of n.
IsAcceptFor(r, n, source) ==
    /\ r.code = "Access-Accept"
    /\ r.source = source
    /\ Len(r.attrs) = 3
    /\ \E i, j, k \in 1..3 :
          /\ {i, j, k} = 1..3
          /\ r.attrs[i].name = "Tunnel-Type"
          /\ r.attrs[i].type = "integer" /\ r.attrs[i].int = 13
          /\ r.attrs[j].name = "Tunnel-Medium-Type"
          /\ r.attrs[j].type = "integer" /\ r.attrs[j].int = 6
          /\ r.attrs[k].name = "Tunnel-Private-Group-ID"
          /\ r.attrs[k].type = "string" /\ IsDecimalOf(r.attrs[k].str, n)

\* C12: every Access-Accept, as built and as transmitted, carries exactly
\* Tunnel-Type 13, Tunnel-Medium-Type 6 and Tunnel-Private-Group-ID equal to
\* the decimal text of the VLAN id get_vlan_for_mac returned for the request,
\* and is addressed to the source of the request; the exact rule
\* aa:bb:cc:dd:ee:ff -> 100 with the identity 'AA:BB:CC:DD:EE:FF' gives the
\* group id '100'.
C12_AcceptAttributes ==
    \A w \in Workers :
        InAuth(w) =>
            /\ reply[w].code = "Access-Accept" =>
                  /\ ~result[w].isNone
                  /\ IsAcceptFor(reply[w], result[w].vlan_id, pkt[w].source)
            /\ \A i \in SentFor(rid[w]) :
                  wire[i].reply.code = "Access-Accept" =>
                      /\ ~result[w].isNone
                      /\ IsAcceptFor(wire[i].reply, result[w].vlan_id, pkt[w].source)
            /\ ( /\ reply[w].code = "Access-Accept"
                 /\ ClaimIdentity(w) = T_ExactUpper
                 /\ DeviceValues(M_Exact) = {V_100} ) =>
                  \E k \in 1..3 : reply[w].attrs[k].str = <<"1", "0", "0">>

C12_Witness ==
    \E w \in Workers :
        /\ pc[w] = "done"
        /\ ClaimIdentity(w) = T_ExactUpper
        /\ result[w] = Found(100, "exact")
        /\ \E i \in SentFor(rid[w]) :
              /\ wire[i].reply.code = "Access-Accept"
              /\ wire[i].reply.source = "ap1"
              /\ wire[i].reply.attrs[3].str = <<"1", "0", "0">>

\* The part of a reply the access point can read beside its own address.
Content(r) == [code |-> r.code, attrs |-> r.attrs]

\* C13: the content of an Access-Reject does not depend on why the request
\* was rejected: every reject, built or transmitted, has the same code and no
\* attributes, so two requests rejected for different reasons get replies
\* with the same content; the reason is in the audit log only.
C13_RejectCarriesNoDetail ==
    /\ \A w \in Workers :
          (InAuth(w) /\ reply[w].code # "Access-Accept" /\ reply[w] # NoReply) =>
              Content(reply[w]) = [code |-> "Access-Reject", attrs |-> <<>>]
    /\ \A i \in DOMAIN wire :
          wire[i].reply.code # "Access-Accept" =>
              Content(wire[i].reply) = [code |-> "Access-Reject", attrs |-> <<>>]
    /\ \A i, j \in DOMAIN wire :
          (wire[i].reply.code = "Access-Reject" /\ wire[j].reply.code = "Access-Reject") =>
              Content(wire[i].reply) = Content(wire[j].reply)

C13_Witness ==
    \E i, j \in DOMAIN wire :
        /\ wire[i].reply.code = "Access-Reject"
        /\ wire[j].reply.code = "Access-Reject"
        /\ \E a \in RowsFor(wire[i].req), b \in RowsFor(wire[j].req) :
              /\ radius_logs[a].reason.template = "Server error: {e}"
              /\ radius_logs[b].reason.template = "No MAC address found in request"

\* C14: the identity is the Calling-Station-Id when the packet has one and
\* otherwise the User-Name (it is the username of the audit record); with
\* both attributes absent no rule lookup is made, the audit reason says that
\* no identity was present, and the request is rejected.
C14_IdentityExtraction ==
    \A w \in Workers :
        InAuth(w) =>
            /\ (ClaimIdentity(w) # None /\ ClaimIdentity(w) # <<>>) =>
                  \A i \in RowsFor(rid[w]) : radius_logs[i].username = ClaimIdentity(w)
            /\ (pkt[w].csid = None /\ pkt[w].uname = None) =>
                  /\ pc[w] \notin {"lookup", "q_exact", "q_prefix", "q_default"}
                  /\ path[w] = "none"
                  /\ \A i \in RowsFor(rid[w]) :
                        radius_logs[i].reason.template = "No MAC address found in request"
                  /\ Finished(w) =>
                        /\ pc[w] = "done"
                        /\ sendCalls[w] = 1
                        /\ reply[w].code = "Access-Reject"


(***************************************************************************)
(* The audit write and the connection it uses.                              *)
(***************************************************************************)
\* C15: log_radius_request never raises to its caller: it returns False on
\* every persistence failure, and True after appending exactly one record.
C15_LogNeverRaises ==
    \A w \in Workers :
        /\ logRet[w] \in {"none", "True", "False"}
        /\ (pc[w] = "send" /\ logRet[w] = "True") => Cardinality(RowsFor(rid[w])) = 1

\* C16: the reply for a request is the one the lookup decided (Access-Accept
\* for a VLAN, Access-Reject for none) whether the audit write succeeds or
\* fails, and the audit write is attempted once.
C16_AuditFailureKeepsReply ==
    \A w \in Workers :
        (InAuth(w) /\ Finished(w) /\ path[w] # "none") =>
            /\ pc[w] = "done"
            /\ sendCalls[w] = 1
            /\ logCalls[w] = 1
            /\ reply[w].code = (IF result[w].isNone THEN "Access-Reject" ELSE "Access-Accept")

\* C17: a request looked up while the store is reachable gets a working
\* connection, also when the worker's pooled connection broke earlier, and
\* goes on to the rule queries.
C17_ReconnectOnNextUse ==
    [][ \A w \in Workers :
            ( /\ pc[w] = "lookup" /\ pc'[w] # "lookup"
              /\ ClaimMac(w) # None
              /\ storeUp )
            => /\ connection_pool'[w].alive
               /\ pc'[w] = "q_exact" ]_vars

\* C18: for every accounting packet, whatever its contents and whatever the
\* store state, when HandleAcctPacket is over one success reply without
\* attributes has been passed to SendReplyPacket for the requester, and no
\* rule lookup was made.
C18_AcctReplied ==
    \A w \in Workers :
        pc[w] = "acct_done" =>
            /\ Content(reply[w]) = [code |-> "Accounting-Response", attrs |-> <<>>]
            /\ reply[w].source = pkt[w].source
            /\ path[w] = "none"
            /\ sendCalls[w] = 1


C20_NewestEnabledDefault ==
    \A w \in Workers :
        InAuth(w) =>
            /\ result[w].match_type = "default" =>
                  \E r \in default_vlan_config :
                      /\ r.enabled
                      /\ \A q \in default_vlan_config : q.enabled => q.id <= r.id
                      /\ result[w].vlan_id = r.vlan_id
            /\ ( /\ Looked(w)
                 /\ ~HasDeviceRule(ClaimMac(w)) /\ ~HasPrefixRule(ClaimMac(w))
                 /\ HasEnabledDefault ) => result[w].match_type = "default"

C20_Witness ==
    \E w \in Workers :
        /\ InAuth(w)
        /\ Cardinality({ r \in default_vlan_config : r.enabled }) = 2
        /\ \E d \in default_vlan_config :
              ~d.enabled /\ \A q \in default_vlan_config : q.id <= d.id
        /\ result[w] = Found(10, "default")


(***************************************************************************)
(* The server loop, the order of the handler's steps, and the store writes. *)
(***************************************************************************)
\* C21: a fault while one request is processed (store error or unexpected
\* exception) stays with that request: the server goes on serving, so the
\* process never ends on account of a request, and a request finished while
\* the store works gets the reply its identity and the rules determine.
C21_FaultIsolated ==
    \A w \in Workers :
        /\ pc[w] # "exited"
        /\ (InAuth(w) /\ pc[w] = "done" /\ Looked(w)) =>
              reply[w].code = (IF HasAssignment(w) THEN "Access-Accept" ELSE "Access-Reject")

\* C22: the audit insert is attempted before the transmission of the reply;
\* when the transmission fails HandleAuthPacket returns normally, having
\* made one attempt and no more, and the audit record written for the
\* request is still there with the decided response kind.
C22_AuditBeforeSend ==
    \A w \in Workers :
        InAuth(w) =>
            /\ (pc[w] = "send" \/ sendCalls[w] > 0) => logCalls[w] >= 1
            /\ sendCalls[w] <= 1
            /\ (pc[w] \in {"done", "raised"} /\ sendCalls[w] = 1 /\ SentFor(rid[w]) = {}) =>
                  /\ pc[w] = "done"
                  /\ logRet[w] = "True" =>
                        /\ Cardinality(RowsFor(rid[w])) = 1
                        /\ \A i \in RowsFor(rid[w]) :
                              radius_logs[i].response_type = reply[w].code

C22_Witness ==
    \E w \in Workers :
        /\ pc[w] = "done"
        /\ sendCalls[w] = 1
        /\ SentFor(rid[w]) = {}
        /\ \E i \in RowsFor(rid[w]) : radius_logs[i].response_type = "Access-Accept"

\* C29: no step of the server changes the DeviceRule, PrefixRule or
\* DefaultPolicy data, and none updates or deletes an audit record: the audit
\* log only grows at its end, the rows already there staying as they are.
C29_OnlyAuditAppends ==
    [][ /\ radreply' = radreply
        /\ mac_prefixes' = mac_prefixes
        /\ default_vlan_config' = default_vlan_config
        /\ Len(radius_logs') >= Len(radius_logs)
        /\ SubSeq(radius_logs', 1, Len(radius_logs)) = radius_logs ]_vars

C29_Witness ==
    /\ Len(radius_logs) = 2
    /\ radius_logs[1].req = 1
    /\ radius_logs[2].req = 2
    /\ radreply # {}

\* C30: when a request has an audit record and a transmitted reply, the
\* response_type of the record is the code of the reply: none is audited as
\* accepted and answered with a reject, or the reverse.
C30_AuditMatchesReply ==
    \A i \in DOMAIN radius_logs, j \in DOMAIN wire :
        radius_logs[i].req = wire[j].req =>
            /\ radius_logs[i].response_type \in {"Access-Accept", "Access-Reject"}
            /\ radius_logs[i].response_type = wire[j].reply.code

C30_Witness ==
    \E i \in DOMAIN radius_logs, j \in DOMAIN wire :
        /\ radius_logs[i].req = wire[j].req
        /\ radius_logs[i].response_type = "Access-Accept"
        /\ wire[j].reply.code = "Access-Accept"


(***************************************************************************)
(* The queries of one lookup.                                               *)
(***************************************************************************)
QueryOrder == <<"radreply", "mac_prefixes", "default_vlan_config">>

\* C27: within one get_vlan_for_mac call the queries go to DeviceRule,
\* PrefixRule, DefaultPolicy in that order, each at most once; the call stops
\* at the first query that returns a row, and after a connection or query
\* failure no query is sent again.
C27_FixedQueryOrder ==
    \A w \in Workers :
        InAuth(w) =>
            /\ Len(queried[w]) <= 3
            /\ queried[w] = SubSeq(QueryOrder, 1, Len(queried[w]))
            /\ path[w] \in {"invalid", "noconn"} => queried[w] = <<>>
            /\ path[w] = "nomatch" => queried[w] = QueryOrder
            /\ path[w] = "hit" =>
                  Len(queried[w]) = (CASE result[w].match_type = "exact" -> 1
                                       [] result[w].match_type = "prefix" -> 2
                                       [] result[w].match_type = "default" -> 3)
            /\ (path[w] = "hit" /\ HasDeviceRule(ClaimMac(w))) => queried[w] = <<"radreply">>

C27_Witness ==
    \E w \in Workers :
        /\ path[w] = "hit"
        /\ result[w] = Found(200, "prefix")
        /\ HasEnabledDefault
        /\ queried[w] = <<"radreply", "mac_prefixes">>

\* C28: every VLAN id get_vlan_for_mac returns, and so every VLAN id in an
\* Access-Accept, is a positive integer: a rule value of 0 or below never
\* gives an accept that carries it.
C28_VlanPositive ==
    \A w \in Workers :
        InAuth(w) =>
            /\ ~result[w].isNone => result[w].vlan_id > 0
            /\ reply[w].code = "Access-Accept" =>
                  \A k \in DOMAIN reply[w].attrs :
                      reply[w].attrs[k].name = "Tunnel-Private-Group-ID" =>
                          /\ IntOk(reply[w].attrs[k].str)
                          /\ ParseInt(reply[w].attrs[k].str) > 0


(***************************************************************************)
(* Requests handled at the same time.                                       *)
(***************************************************************************)
\* The worker holds the connection get_connection gave it.
InUse(w) == pc[w] \in {"q_exact", "q_prefix", "q_default", "log_insert"}

\* C24: get_connection never gives one store connection to two decisions
\* that run at the same time: two workers never hold the same connection,
\* and no connection is stored for two workers.
C24_ConnectionNotShared ==
    \A v, w \in Workers :
        v # w =>
            /\ (InUse(v) /\ InUse(w)) => connection_pool[v].id # connection_pool[w].id
            /\ (connection_pool[v] # NoConn /\ connection_pool[w] # NoConn) =>
                  connection_pool[v].id # connection_pool[w].id

C24_Witness ==
    \E v, w \in Workers :
        /\ v # w
        /\ pc[v] = "q_prefix" /\ pc[w] = "log_insert"
        /\ connection_pool[v].alive /\ connection_pool[w].alive

\* The identity recorded for request r in the audit log.
AuditedIdentity(r) == { radius_logs[i].username : i \in RowsFor(r) }

\* C26: two requests for the same identity handled at the same time on
\* different workers, the rules unchanged and the store available, get the
\* same reply, code and VLAN id, however their store queries interleave.
C26_SameIdentitySameReply ==
    /\ \A v, w \in Workers :
          ( /\ InAuth(v) /\ InAuth(w)
            /\ ClaimIdentity(v) = ClaimIdentity(w)
            /\ pc[v] \in {"send", "done"} /\ pc[w] \in {"send", "done"} ) =>
              Content(reply[v]) = Content(reply[w])
    /\ \A i, j \in DOMAIN wire :
          (AuditedIdentity(wire[i].req) \cap AuditedIdentity(wire[j].req) # {}) =>
              Content(wire[i].reply) = Content(wire[j].reply)

C26_Witness ==
    \E v, w \in Workers :
        /\ v # w
        /\ pc[v] = "done" /\ pc[w] = "done"
        /\ ClaimIdentity(v) = T_PrefixDash /\ ClaimIdentity(w) = T_PrefixDash
        /\ reply[v].code = "Access-Accept"
        /\ \E i, j \in DOMAIN wire : i # j /\ wire[i].reply = wire[j].reply


(***************************************************************************)
(* A rule updated during a lookup.                                          *)
(***************************************************************************)
\* The results the rule set rules = <<radreply, mac_prefixes,
\* default_vlan_config>> gives for mac: exact before prefix before default.
RuleSetResults(rules, mac) ==
    LET device == { r \in rules[1] : r.username = mac
                                     /\ r.attribute = "Tunnel-Private-Group-ID" }
        vendor == { r \in rules[2] : r.prefix = SubSeq(mac, 1, 8) }
        enabled == { r \in rules[3] : r.enabled }
    IN  IF device # {} THEN { Found(ParseInt(r.value), "exact") : r \in device }
        ELSE IF vendor # {} THEN { Found(r.vlan_id, "prefix") : r \in vendor }
        ELSE IF enabled # {}
             THEN { Found(r.vlan_id, "default") :
                        r \in { x \in enabled : \A q \in enabled : q.id <= x.id } }
        ELSE {NoneNone}

\* C25: a get_vlan_for_mac call during which one rule is inserted, changed
\* or deleted returns the result the rule set gave before the update or the
\* result it gives after it, nothing else.
C25_OldOrNewRule ==
    [][ \A w \in Workers :
            ( /\ pc[w] \in {"q_exact", "q_prefix", "q_default"}
              /\ path[w] = "none" /\ path'[w] \in {"hit", "nomatch"}
              /\ ruleLog.during[w] <= 1 )
            => result'[w] \in RuleSetResults(ruleLog.before[w], ClaimMac(w))
                                \cup RuleSetResults(tables, ClaimMac(w)) ]_vars

C25_Witness ==
    \E w \in Workers :
        /\ pc[w] = "log"
        /\ path[w] = "hit"
        /\ ruleLog.during[w] = 1 /\ ruleLog.total = 1
        /\ ruleLog.before[w] # tables
        /\ result[w] \in RuleSetResults(ruleLog.before[w], ClaimMac(w))
        /\ result[w] \notin RuleSetResults(tables, ClaimMac(w))

\* C31: with any number of rule updates made while a get_vlan_for_mac call is
\* in flight, the call returns the result that one of the rule sets which
\* existed between its start and its end gives for the MAC: the tier queries
\* read as one.
C31_AtomicRead ==
    [][ \A w \in Workers :
            ( /\ pc[w] \in {"q_exact", "q_prefix", "q_default"}
              /\ path[w] = "none" /\ path'[w] \in {"hit", "nomatch"} )
            => \E rules \in ruleLog.states[w] :
                   result'[w] \in RuleSetResults(rules, ClaimMac(w)) ]_vars

GetConnectionStep(w) ==
    \/ pc[w] = "lookup" /\ NormalizedMac(w) # None /\ pc'[w] # "lookup"
    \/ pc[w] = "log" /\ pc'[w] # "log"

UnusableCallingStation(w) ==
    /\ InAuth(w)
    /\ pkt[w].csid # None
    /\ pkt[w].csid = <<>> \/ MalformedIdentity(w)
    /\ pkt[w].uname # None
    /\ NormalizeMac(pkt[w].uname) # None
    /\ IsCanonical(NormalizeMac(pkt[w].uname))
    /\ HasDeviceRule(NormalizeMac(pkt[w].uname))

\* C34: a request that carries Calling-Station-Id is decided on it alone: when
\* it is empty or not a valid MAC, the request is rejected, also when
\* User-Name holds a valid MAC that has a rule.
C34_UserNameNotUsed ==
    \A w \in Workers :
        UnusableCallingStation(w) =>
            /\ result[w].match_type # "exact"
            /\ Finished(w) =>
                  /\ pc[w] = "done"
                  /\ sendCalls[w] = 1
                  /\ reply[w].code = "Access-Reject"

(***************************************************************************)
(* A matched row whose VLAN value is not an integer.                        *)
(***************************************************************************)
\* The exact query of worker w's call has returned a row for the MAC, and the
\* rows it can return hold no integer.
MatchedNonInteger(w) ==
    /\ InAuth(w)
    /\ ClaimMac(w) # None
    /\ DeviceValues(ClaimMac(w)) # {}
    /\ \A v \in DeviceValues(ClaimMac(w)) : ~IntOk(v)
    /\ Len(queried[w]) >= 1
    /\ path[w] # "qerror"

\* C35: when the row matched in a tier holds a VLAN value that is not an
\* integer, get_vlan_for_mac raises and queries no lower tier, and
\* HandleAuthPacket answers with Access-Reject and writes an audit row whose
\* reason is 'Server error', also when a lower-tier rule exists for the MAC.
C35_NonIntegerRaises ==
    \A w \in Workers :
        MatchedNonInteger(w) =>
            /\ queried[w] = <<"radreply">>
            /\ result[w].isNone
            /\ exc[w] # "none"
            /\ Finished(w) =>
                  /\ pc[w] = "done"
                  /\ sendCalls[w] = 1
                  /\ reply[w].code = "Access-Reject"
                  /\ \E i \in RowsFor(rid[w]) :
                         radius_logs[i].reason.template = "Server error: {e}"

(***************************************************************************)
(* The start of the process.                                                *)
(***************************************************************************)
\* C36: main starts the server loop only after a get_connection call of its
\* own has returned a connection: no request is taken up before that, and when
\* the test of the connection fails the process exits (status 1) without
\* having served any request.
C36_ListenerAfterConnection ==
    \A w \in MainLoop :
        /\ (pc[w] \notin {"main", "exited"} \/ nreq > 0) => connection_pool[w] # NoConn
        /\ (pc[w] # "main" /\ connection_pool[w] = NoConn) =>
               /\ pc[w] = "exited"
               /\ nreq = 0
               /\ wire = <<>>
               /\ radius_logs = <<>>

C36_Witness ==
    \E w \in MainLoop :
        /\ pc[w] = "exited"
        /\ connection_pool[w] = NoConn
        /\ nconn = 0
        /\ nreq = 0

(***************************************************************************)
(* A query that never returns.                                              *)
(***************************************************************************)
\* Request r has been taken up and its handler has sent a reply.
RepliedTo(r) == nreq >= r /\ \A w \in Workers : rid[w] = r => pc[w] = "done"

\* Request r is the one whose store query does not return.
HungOn(r) == \E w \in Workers : rid[w] = r /\ pc[w] = "hung"

\* C23: a store query that never returns while one request is handled does
\* not keep the other requests from being answered: each of the requests
\* sent to the server, other than the one that hangs, eventually gets its
\* reply.
C23_OthersAnswered ==
    \A r \in 1..MaxRequests : <>(RepliedTo(r) \/ HungOn(r))

====
